---------------------------- MODULE Spec2Model ----------------------------
(***************************************************************************)
(* Model of pw-curl's fetch program: the scheduler loop of pw_main, the    *)
(* FileRequest callbacks (write_data, request_complete, fini_file_request)  *)
(* and the CURL runner (add_curl_request, curl_perform, check_transfers).  *)
(*                                                                         *)
(* A URL is identified by its position in the argument list; the request   *)
(* created for URL u is request u.  The transfer engine (libcurl's multi   *)
(* interface), the file system and the allocator are the environment: what *)
(* they answer is chosen nondeterministically.                             *)
(*                                                                         *)
(* The header-field parsers of pw_http_util.c are functions of a character *)
(* buffer and a cursor; they are operators here, applied by the actions of *)
(* a specification of their own (ParseSpec) to every buffer of a bounded   *)
(* set.                                                                    *)
(***************************************************************************)
EXTENDS Integers, Sequences, FiniteSets, TLC

\* ----------------------------------------------------------------- bounds
MaxUrls == 3
MaxParallel == 2
MaxBytes == 2
MaxChunk == 1
\* the longest header text parsed, without its terminating NUL
MaxText == 3
\* the longest text with quoted strings
MaxQuoted == 4
\* the longest text with extended values
MaxExt == 5
\* the most parameter texts after a media type or a disposition type
MaxParams == 2
\* the most requests of a redirect chain
MaxChain == 3
\* the most instances of one header in a response
MaxInstances == 2

\* ------------------------------------------------------ program constants
HTTP_OK == 200

\* ------------------------------------------------------------ environment
Urls == 1..MaxUrls
\* file names the resolver may yield (they depend on server-supplied headers)
Names == {"a", "b"}
\* response codes a server may answer; 0 is "no response code yet"
Codes == {200, 206, 404}
Is2xx(s) == s >= 200 /\ s <= 299
\* what the environment answers during one body callback
\* what the environment answers during one body callback: whether
\* curl_easy_getinfo fails, whether curl_request_get_filename succeeds and with
\* which name, whether pw_file_open succeeds, and what pw_write does (-1: it
\* fails, else the bytes it wrote); an answer that is never asked for is fixed
Env ==
    {e \in [statusErr : BOOLEAN, resolveOk : BOOLEAN, name : Names,
            openOk : BOOLEAN, wr : -1..MaxChunk] :
        /\ ~e.resolveOk => e.openOk /\ e.name = "a"
        /\ ~(e.resolveOk /\ e.openOk) => e.wr = 0}
\* the request and the easy handle are memory that is freed with them
Destroyed == [life |-> "destroyed", status |-> 0, file |-> "null", fname |-> "", pos |-> 0]
\* the easy handle stays in the multi handle after its request is destroyed
Removed_kept == [st |-> "running", code |-> 0, result |-> "none"]
\* check_transfers: curl_multi_remove_handle takes the handle from the engine
Removed == [st |-> "removed", code |-> 0, result |-> "none"]

VARIABLES
    given,              \* the number of URLs on the command line
    urls,               \* pw_main: the array of URLs still to fetch
    admitted,           \* per URL: how many requests were created for it
    parallel,           \* pw_main: parallel.signed_value
    pending_sigint,     \* the flag set by sigint_handler
    pc,                 \* pw_main: where control is
    running_transfers,  \* pw_main: the count curl_perform stored
    i,                  \* pw_main: the admission loop's counter
    exit,               \* how pw_main's run ended
    req,                \* per request: the FileRequestData fields
    eng,                \* per request: the engine's view of its easy handle
    msgs,               \* the engine's queue of CURLMSG_DONE messages
    disk,               \* the file system: name -> file
    hist,               \* per live request: counts of what was done to it
                        \* and of the "FAILED: <status> <url>" lines printed
    last,               \* the operation that produced this state
    buf,                \* a parser's input: NUL-terminated array of char
    cur,                \* *current_char, as an index into buf
    res,                \* *result
    rv,                \* what the parser returned
    fn,                 \* the parser that was applied
    kind,               \* the type of *result: "null", "string", "map",
                        \* "char" for the char parse_value_char returns,
                        \* "media" and "disposition" for the request
                        \* fields that parse_media_type and
                        \* parse_content_disposition set, "filename" for
                        \* the resolved file name
    perr,               \* the status the parser set when it returned false
    rdmax,              \* the highest index of buf the parser read
    hdrs                \* the instances of one header that the easy handle
                        \* holds, per request of the redirect chain

\* the variables of the parsers
pvars == <<buf, cur, res, rv, fn, kind, perr, rdmax, hdrs>>

vars == <<given, urls, admitted, parallel, pending_sigint, pc, running_transfers, i, exit,
          req, eng, msgs, disk, hist, last, buf, cur, res, rv, fn,
          kind, perr, rdmax, hdrs>>

NoReq == [life |-> "none", status |-> 0, file |-> "null", fname |-> "", pos |-> 0]
NoEng == [st |-> "none", code |-> 0, result |-> "none"]
NoHist == [parsed |-> 0, resolved |-> 0, opened |-> 0, closed |-> 0, reported |-> 0]
NoFile == [exists |-> FALSE, len |-> 0]
\* op: the operation; r: its request; size, ret: the bytes a body callback
\* was offered and returned; path: where the operation returned; status: the
\* request's status when a callback returned or when it was destroyed; opened,
\* closed, reported: for a finalization, how often the request's file was
\* opened and closed and its failure printed in its whole life
Event(op, u, size, ret, path) ==
    [op |-> op, r |-> u, size |-> size, ret |-> ret, path |-> path,
     status |-> 0, opened |-> 0, closed |-> 0, reported |-> 0]

Max(a, b) == IF a >= b THEN a ELSE b
Min(a, b) == IF a <= b THEN a ELSE b

\* requests handed to the engine and not yet finalized
InFlight == {u \in Urls : eng[u].st \in {"running", "done"}}
\* handles the engine still drives
Running == {u \in Urls : eng[u].st = "running"}

\* the parallel=<n> argument: absent or not a number (num is FALSE), or the
\* number it parses to
ParallelArgs == [num : BOOLEAN, val : (-1)..MaxParallel]
\* pw_main: "PwValue parallel = PW_UNSIGNED(1)", replaced by whatever number
\* pw_parse_number yields
ParseParallel(a) == IF a.num THEN a.val ELSE 1

\* pw_main after the command line was read
MainInit ==
    /\ given \in 0..MaxUrls
    /\ urls = [k \in 1..given |-> k]
    /\ admitted = [u \in Urls |-> 0]
    /\ parallel \in {ParseParallel(a) : a \in ParallelArgs}
    /\ pending_sigint = 0
    /\ pc = "first"
    /\ running_transfers = 0
    /\ i = 0
    /\ exit = "none"
    /\ req = [u \in Urls |-> NoReq]
    /\ eng = [u \in Urls |-> NoEng]
    /\ msgs = <<>>
    /\ disk = [f \in Names |-> NoFile]
    /\ hist = [u \in Urls |-> NoHist]
    /\ last = Event("init", 0, 0, 0, "")

\* no parser is applied in the runs of the scheduler
Init ==
    /\ MainInit
    /\ buf = <<0>>
    /\ cur = 1
    /\ res = <<>>
    /\ rv = "none"
    /\ fn = "none"
    /\ kind = "null"
    /\ perr = "none"
    /\ rdmax = 0
    /\ hdrs = <<>>

\* ------------------------------------------------------------ sigint_handler
sigint_handler ==
    /\ pc # "done"
    /\ pending_sigint' = 1
    /\ last' = Event("sigint", 0, 0, 0, "")
    /\ UNCHANGED pvars
    /\ UNCHANGED <<given, urls, admitted, parallel, pc, running_transfers, i, exit,
                   req, eng, msgs, disk, hist>>

\* ------------------------------------------------------------ create_request
\* the first item is taken
PopUrl_first(s) == s[1]
\* pw_array_pop takes the last item of the array
PopUrl(s) == s[Len(s)]
PopRest(s) == SubSeq(s, 1, Len(s) - 1)

\* add_curl_request: curl_multi_add_handle either takes the handle or fails
add_curl_request(e, ok) ==
    IF ok THEN [e EXCEPT !.st = "running"] ELSE [e EXCEPT !.st = "idle"]

\* create_request(url): pw_create may fail (false is returned and the caller
\* returns); the result of add_curl_request is not looked at
create_request(u, createOk, addOk) ==
    IF ~createOk
    THEN /\ UNCHANGED <<admitted, req, eng>>
    ELSE /\ admitted' = [admitted EXCEPT ![u] = @ + 1]
         /\ req' = [req EXCEPT ![u] = [NoReq EXCEPT !.life = "live"]]
         /\ eng' = [eng EXCEPT ![u] = add_curl_request(NoEng, addOk)]

\* ------------------------------------------------------------------ file I/O
\* pw_file_open(name, O_CREAT | O_RDWR | O_TRUNC): the file exists and is empty
OpenTrunc(d, name) == [d EXCEPT ![name] = [exists |-> TRUE, len |-> 0]]

\* pw_write of n bytes at the handle's offset pos: the file's new length (the
\* bytes themselves are never looked at; a file truncated through another
\* handle grows again up to the end of the write)
WriteAt(len, pos, n) == IF n = 0 THEN len ELSE Max(len, pos + n)

\* ---------------------------------------------------------------- write_data
\* curl_update_status: req->status is set unless curl_easy_getinfo fails
curl_update_status(rq, code, err) ==
    IF err THEN rq ELSE [rq EXCEPT !.status = code]

\* only an unknown status is refused
RejectStatus_unknown(s) == s = 0
\* only a server error is refused
RejectStatus_5xx(s) == s >= 500

\* write_data: "if (file_req->curl_request.status != 200)"
RejectStatus(s) == s # HTTP_OK

\* the file is opened on every callback
NeedOpen_always(f) == TRUE

\* write_data: "if (pw_is_null(&file_req->file))"
NeedOpen(f) == f = "null"

Outcome(rq, h, d, ret, path) ==
    [rq |-> rq, h |-> h, d |-> d, ret |-> ret, path |-> path]

\* the tail of write_data: pw_write to the open file, bytes_written returned
WriteFile(rq, h, d, u, size, env) ==
    IF env.wr < 0
    THEN Outcome(rq, h, d, 0, "write_fail")
    ELSE LET n == Min(env.wr, size)
             name == rq.fname
             d2 == [d EXCEPT ![name].len = WriteAt(d[name].len, rq.pos, n)]
         IN  Outcome([rq EXCEPT !.pos = rq.pos + n], h, d2, n,
                     IF n = size THEN "written" ELSE "short")

\* the branch of write_data that creates the file: headers are parsed, the
\* name is resolved, the file is opened
OpenFile(rq, h, d, u, size, env) ==
    LET h1 == [h EXCEPT !.parsed = h.parsed + 1, !.resolved = h.resolved + 1]
    IN  IF ~env.resolveOk THEN Outcome(rq, h1, d, 0, "resolve_fail")
        ELSE IF ~env.openOk THEN Outcome(rq, h1, d, 0, "open_fail")
        ELSE WriteFile([rq EXCEPT !.file = "open", !.fname = env.name, !.pos = 0],
                       [h1 EXCEPT !.opened = h1.opened + 1],
                       OpenTrunc(d, env.name), u, size, env)

\* write_data(data, 1, size, self), code being the engine's response code
write_data(rq, h, d, u, size, code, env) ==
    IF size = 0 THEN Outcome(rq, h, d, 0, "size0")
    ELSE LET r1 == curl_update_status(rq, code, env.statusErr)
         IN  IF RejectStatus(r1.status)
             THEN Outcome(r1, [h EXCEPT !.reported = h.reported + 1], d, 0, "status")
             ELSE IF NeedOpen(r1.file) THEN OpenFile(r1, h, d, u, size, env)
             ELSE WriteFile(r1, h, d, u, size, env)

\* ---------------------------------------------- request_complete, fini
\* request_complete: an open file is closed unless the status is not 200,
\* which is printed as a failure
request_complete(rq, h) ==
    IF RejectStatus(rq.status)
    THEN [rq |-> rq, h |-> [h EXCEPT !.reported = h.reported + 1]]
    ELSE IF rq.file = "null" THEN [rq |-> rq, h |-> h]
    ELSE IF rq.file = "open"
         THEN [rq |-> [rq EXCEPT !.file = "closed"],
               h |-> [h EXCEPT !.closed = h.closed + 1]]
         ELSE [rq |-> rq, h |-> h]

\* the handle is dropped without closing the file
fini_file_request_noclose(rq, h, d) == [rq |-> Destroyed, h |-> h, d |-> d]
\* a file that is still open is rolled back
fini_file_request_rollback(rq, h, d) ==
    [rq |-> Destroyed,
     h |-> IF rq.file = "open" THEN [h EXCEPT !.closed = h.closed + 1] ELSE h,
     d |-> IF rq.file = "open" THEN OpenTrunc(d, rq.fname) ELSE d]

\* fini_file_request: pw_destroy(&req->file) releases the handle, closing a
\* file that is still open; what is on disk stays
fini_file_request(rq, h, d) ==
    [rq |-> Destroyed,
     h |-> IF rq.file = "open" THEN [h EXCEPT !.closed = h.closed + 1] ELSE h,
     d |-> d]

\* ------------------------------------------------- the engine, in multi_perform
\* The engine calls the write callback of a running transfer.  The response
\* code of a transfer is fixed from the first time it is known.  A callback
\* that returns another count than it was offered aborts its transfer: the
\* transfer is done with an error and its message is queued.
EngineBody(u) ==
    /\ pc = "perform"
    /\ eng[u].st = "running"
    /\ \E size \in 0..MaxChunk, env \in Env, c \in Codes :
        /\ eng[u].code # 0 => c = eng[u].code
        /\ env.wr <= size
        /\ req[u].pos + size <= MaxBytes
        /\ LET out == write_data(req[u], hist[u], disk, u, size, c, env)
               aborted == out.ret # size
           IN  /\ req' = [req EXCEPT ![u] = out.rq]
               /\ hist' = [hist EXCEPT ![u] = out.h]
               /\ disk' = out.d
               /\ eng' = [eng EXCEPT ![u] =
                            IF aborted
                            THEN [st |-> "done", code |-> c, result |-> "err"]
                            ELSE [eng[u] EXCEPT !.code = c]]
               /\ msgs' = IF aborted THEN Append(msgs, u) ELSE msgs
               /\ last' = [Event("write_data", u, size, out.ret, out.path) EXCEPT
                              !.status = out.rq.status]
    /\ UNCHANGED pvars
    /\ UNCHANGED <<given, urls, admitted, parallel, pending_sigint, pc, running_transfers, i, exit>>

\* A running transfer ends: successfully (a response code is then known) or
\* with a transport-level error.
EngineFinish(u) ==
    /\ pc = "perform"
    /\ eng[u].st = "running"
    /\ \E result \in {"ok", "err"}, c \in Codes \cup {0} :
        /\ eng[u].code # 0 => c = eng[u].code
        /\ result = "ok" => c # 0
        /\ eng' = [eng EXCEPT ![u] = [st |-> "done", code |-> c, result |-> result]]
        /\ last' = Event("finish", u, 0, 0, result)
    /\ msgs' = Append(msgs, u)
    /\ UNCHANGED pvars
    /\ UNCHANGED <<given, urls, admitted, parallel, pending_sigint, pc, running_transfers, i, exit,
                   req, disk, hist>>

\* -------------------------------------------------------------- curl_perform
\* pw_main calls curl_perform, which calls curl_multi_perform: the advance
\* step starts
PerformCall ==
    /\ pc = "call"
    /\ pc' = "perform"
    /\ last' = Event("call", 0, 0, 0, IF pending_sigint # 0 THEN "flagged" ELSE "")
    /\ UNCHANGED pvars
    /\ UNCHANGED <<given, urls, admitted, parallel, pending_sigint, running_transfers, i, exit,
                   req, eng, msgs, disk, hist>>

\* a failure of curl_multi_perform is ignored
PerformReturn_ignored(ok) ==
    /\ pc = "perform"
    /\ running_transfers' = IF ok THEN Cardinality(Running) ELSE running_transfers
    /\ pc' = IF ok /\ Cardinality(Running) # 0 THEN "wait" ELSE "check"
    /\ exit' = exit
    /\ last' = Event("perform", 0, 0, 0, IF ok THEN "ok" ELSE "fail")
    /\ UNCHANGED pvars
    /\ UNCHANGED <<given, urls, admitted, parallel, pending_sigint, i, req, eng, msgs, disk, hist>>

\* curl_multi_perform returns: with an error (curl_perform returns false), or
\* with the number of handles still running; with none running the finished
\* transfers are checked at once, otherwise curl_multi_wait comes first
PerformReturn(ok) ==
    /\ pc = "perform"
    /\  IF ok
        THEN /\ running_transfers' = Cardinality(Running)
             /\ pc' = IF Cardinality(Running) = 0 THEN "check" ELSE "wait"
             /\ exit' = exit
             /\ last' = Event("perform", 0, 0, 0, "ok")
        ELSE /\ running_transfers' = running_transfers
             /\ pc' = "done"
             /\ exit' = "fatal"
             /\ last' = Event("perform", 0, 0, 0, "fail")
    /\ UNCHANGED pvars
    /\ UNCHANGED <<given, urls, admitted, parallel, pending_sigint, i, req, eng, msgs, disk, hist>>

\* curl_multi_wait returns, up to a second later
WaitReturn(ok) ==
    /\ pc = "wait"
    /\  IF ok
        THEN /\ pc' = "check"
             /\ exit' = exit
             /\ last' = Event("wait", 0, 0, 0, "ok")
        ELSE /\ pc' = "done"
             /\ exit' = "fatal"
             /\ last' = Event("wait", 0, 0, 0, "fail")
    /\ UNCHANGED pvars
    /\ UNCHANGED <<given, urls, admitted, parallel, pending_sigint, running_transfers, i,
                   req, eng, msgs, disk, hist>>

\* ----------------------------------------------------------- check_transfers
\* check_transfers calls complete only for "m->data.result == CURLE_OK"
CompleteCalled(result) == result = "ok"

\* one CURLMSG_DONE message is read and its request finalized: for a transfer
\* that ended well the status is read and complete is called; then the handle
\* is removed and the request destroyed
Finalize ==
    /\ pc = "check"
    /\ msgs # <<>>
    /\ LET u == Head(msgs) IN
       \E statusErr \in BOOLEAN :
         LET done == IF CompleteCalled(eng[u].result)
                     THEN request_complete(
                              curl_update_status(req[u], eng[u].code, statusErr),
                              hist[u])
                     ELSE [rq |-> req[u], h |-> hist[u]]
             fin == fini_file_request(done.rq, done.h, disk)
         IN  /\ req' = [req EXCEPT ![u] = fin.rq]
             /\ hist' = [hist EXCEPT ![u] = NoHist]
             /\ disk' = fin.d
             /\ eng' = [eng EXCEPT ![u] = Removed]
             /\ last' = [Event("finalize", u, 0, 0, eng[u].result) EXCEPT
                            !.status = done.rq.status,
                            !.opened = fin.h.opened, !.closed = fin.h.closed,
                            !.reported = fin.h.reported]
    /\ msgs' = Tail(msgs)
    /\ UNCHANGED pvars
    /\ UNCHANGED <<given, urls, admitted, parallel, pending_sigint, pc, running_transfers, i, exit>>

\* curl_easy_getinfo(CURLINFO_PRIVATE) fails: "FATAL" is printed and exit(0)
FinalizeAbort ==
    /\ pc = "check"
    /\ msgs # <<>>
    /\ pc' = "done"
    /\ exit' = "abort"
    /\ last' = Event("finalize", Head(msgs), 0, 0, "abort")
    /\ UNCHANGED pvars
    /\ UNCHANGED <<given, urls, admitted, parallel, pending_sigint, running_transfers, i,
                   req, eng, msgs, disk, hist>>

\* curl_multi_info_read has no message left: curl_perform returns true and
\* pw_main sets i = running_transfers
CheckDone ==
    /\ pc = "check"
    /\ msgs = <<>>
    /\ i' = running_transfers
    /\ pc' = "admit"
    /\ last' = Event("check_done", 0, 0, 0, "")
    /\ UNCHANGED pvars
    /\ UNCHANGED <<given, urls, admitted, parallel, pending_sigint, running_transfers, exit,
                   req, eng, msgs, disk, hist>>

\* ------------------------------------------------------------------- pw_main
\* "prepare first request": without URLs the usage is printed; otherwise the
\* last URL is popped and its request created
PrepareFirst ==
    /\ pc = "first"
    /\ IF Len(urls) = 0
       THEN /\ pc' = "done"
            /\ exit' = "usage"
            /\ last' = Event("usage", 0, 0, 0, "")
            /\ UNCHANGED <<urls, admitted, req, eng>>
       ELSE \E createOk \in BOOLEAN, addOk \in BOOLEAN :
            /\ urls' = PopRest(urls)
            /\ create_request(PopUrl(urls), createOk, addOk)
            /\ pc' = IF createOk THEN "loop" ELSE "done"
            /\ exit' = IF createOk THEN exit ELSE "error"
            /\ last' = Event("admit", PopUrl(urls), 0, 0,
                             IF ~createOk THEN "create_fail"
                             ELSE IF addOk THEN "ok" ELSE "add_fail")
    /\ UNCHANGED pvars
    /\ UNCHANGED <<given, parallel, pending_sigint, running_transfers, i, msgs, disk, hist>>

\* the loop goes on without looking at the flag
LoopTest_blind ==
    /\ pc = "loop"
    /\ pc' = "call"
    /\ last' = Event("loop", 0, 0, 0, "")
    /\ UNCHANGED pvars
    /\ UNCHANGED <<given, urls, admitted, parallel, pending_sigint, running_transfers, i, exit,
                   req, eng, msgs, disk, hist>>

\* "while(!pending_sigint)"
LoopTest ==
    /\ pc = "loop"
    /\ IF pending_sigint # 0
       THEN /\ pc' = "done"
            /\ exit' = "interrupted"
       ELSE /\ pc' = "call"
            /\ exit' = exit
    /\ last' = Event("loop", 0, 0, 0, "")
    /\ UNCHANGED pvars
    /\ UNCHANGED <<given, urls, admitted, parallel, pending_sigint, running_transfers, i,
                   req, eng, msgs, disk, hist>>

\* the admission loop with an off-by-one bound
LoopAdmits_le(k, n) == k <= n
\* the admission loop stops one slot short of the limit
LoopAdmits_short(k, n) == k + 1 < n

\* "for(; i < parallel.signed_value; i++)"
LoopAdmits(k, n) == k < n

\* "if (i == 0)": no running transfers and no more URLs were added
WorkExhausted(k) == k = 0

\* one turn of the admission loop: a URL is popped and its request created
AdmitOne ==
    /\ pc = "admit"
    /\ LoopAdmits(i, parallel)
    /\ Len(urls) # 0
    /\ \E createOk \in BOOLEAN, addOk \in BOOLEAN :
        /\ urls' = PopRest(urls)
        /\ create_request(PopUrl(urls), createOk, addOk)
        /\ i' = IF createOk THEN i + 1 ELSE i
        /\ pc' = IF createOk THEN pc ELSE "done"
        /\ exit' = IF createOk THEN exit ELSE "error"
        /\ last' = Event("admit", PopUrl(urls), 0, 0,
                         IF ~createOk THEN "create_fail"
                         ELSE IF addOk THEN "ok" ELSE "add_fail")
    /\ UNCHANGED pvars
    /\ UNCHANGED <<given, parallel, pending_sigint, running_transfers, msgs, disk, hist>>

\* the admission loop ends; the run ends when i is 0, else the loop goes on
AdmitEnd ==
    /\ pc = "admit"
    /\ ~(LoopAdmits(i, parallel) /\ Len(urls) # 0)
    /\ IF WorkExhausted(i)
       THEN /\ pc' = "done"
            /\ exit' = "exhausted"
       ELSE /\ pc' = "loop"
            /\ exit' = exit
    \* running_transfers and i are locals of the loop body: their scope ends
    /\ running_transfers' = 0
    /\ i' = 0
    /\ last' = Event("admit_end", 0, 0, 0, "")
    /\ UNCHANGED pvars
    /\ UNCHANGED <<given, urls, admitted, parallel, pending_sigint, req, eng, msgs, disk, hist>>

\* ---------------------------------------------------------------------- main
\* what pw_main returns: false where it returns on a failed create_request,
\* true at "return true" after the loop, however the loop was left (the break
\* on a failed curl_perform is marked "XXX set status")
pw_main_result(e) == e # "error"
\* main prints the task's status only "if (!pw_main(argc, argv))"
StatusPrinted(e) == ~pw_main_result(e)
\* main ends with "return 0"; check_transfers ends the process with exit(0)
ExitCode(e) == 0

Next ==
    \/ sigint_handler
    \/ PrepareFirst
    \/ LoopTest
    \/ PerformCall
    \/ \E u \in Urls : EngineBody(u)
    \/ \E u \in Urls : EngineFinish(u)
    \/ \E ok \in BOOLEAN : PerformReturn(ok)
    \/ \E ok \in BOOLEAN : WaitReturn(ok)
    \/ Finalize
    \/ FinalizeAbort
    \/ CheckDone
    \/ AdmitOne
    \/ AdmitEnd

Spec == Init /\ [][Next]_vars

\* The run without interrupt and with an engine that does not fail: pw_main is
\* a sequential program, so its next step is always taken; each transfer the
\* engine was given ends in some call of curl_multi_perform.
Sched ==
    \/ PrepareFirst
    \/ LoopTest
    \/ PerformCall
    \/ PerformReturn(TRUE)
    \/ WaitReturn(TRUE)
    \/ Finalize
    \/ CheckDone
    \/ AdmitOne
    \/ AdmitEnd

NextFair ==
    \/ Sched
    \/ \E u \in Urls : EngineBody(u)
    \/ \E u \in Urls : EngineFinish(u)

SpecFair ==
    /\ Init
    /\ [][NextFair]_vars
    /\ WF_vars(Sched)
    /\ \A u \in Urls : SF_vars(EngineFinish(u))

\* ------------------------------------------------------------ pw_http_util.c
\* a char of the buffer as the unsigned char the classifiers take
ToUChar(c) == (c + 256) % 256

\* is_ctl without DEL
is_ctl_nodel(c) == 0 <= c /\ c <= 31
\* is_ctl: "(0 <= c && c <= 31) || c == 127"
is_ctl(c) == (0 <= c /\ c <= 31) \/ c = 127

\* is_separator: the cases of the switch  ( ) < > @ , ; : \ " / [ ] ? = { }
\* SP HT
is_separator(c) ==
    c \in {40, 41, 60, 62, 64, 44, 59, 58, 92, 34, 47, 91, 93, 63, 61, 123, 125, 32, 9}

\* parse_token: "while (!(is_separator(*token_end) || is_ctl(*token_end)))
\* token_end++"
RECURSIVE TokenEnd(_, _)
TokenEnd(b, e) ==
    IF is_separator(ToUChar(b[e])) \/ is_ctl(ToUChar(b[e])) THEN e ELSE TokenEnd(b, e + 1)

\* parse_token(current_char, result): the chars from the cursor to token_end
\* are appended to an empty string, which is moved to the result, and the
\* cursor is set to token_end; when the append fails false is returned and
\* neither the cursor nor the result is touched
parse_token(b, c, o, appendOk) ==
    IF ~appendOk THEN [ok |-> FALSE, cur |-> c, out |-> o]
    ELSE [ok |-> TRUE, cur |-> TokenEnd(b, c), out |-> SubSeq(b, c, TokenEnd(b, c) - 1)]

\* skip_lwsp(current_char): the cursor is moved over SP, HT, CR and LF
RECURSIVE skip_lwsp(_, _)
skip_lwsp(b, c) ==
    IF b[c] \in {32, 9, 13, 10} THEN skip_lwsp(b, c + 1) ELSE c

\* the loop of parse_quoted_string: s is qstr_start, e is qstr_end and acc is
\* *result.  A CTL other than HT, or a double quote, ends the loop; at a
\* backslash the chars from s up to it are appended to the result and both
\* s and e are set to the char that follows the backslash, which the next
\* round of the loop examines as it examines any char
RECURSIVE QuotedScan(_, _, _, _)
QuotedScan(b, s, e, acc) ==
    LET c == ToUChar(b[e])
    IN  IF is_ctl(c) /\ c # 32 /\ c # 9 THEN [s |-> s, e |-> e, acc |-> acc]
        ELSE IF c = 34 THEN [s |-> s, e |-> e, acc |-> acc]
        ELSE IF c # 92 THEN QuotedScan(b, s, e + 1, acc)
        ELSE QuotedScan(b, e + 1, e + 1, acc \o SubSeq(b, s, e - 1))

\* parse_quoted_string(current_char, result): the result is destroyed (Null);
\* when the cursor is not at a double quote true is returned at once; else
\* the result is an empty string the loop appends to.  When the loop ended at
\* a double quote the last segment is appended and the cursor is set past the
\* quote, else the result is truncated to the empty string and the cursor is
\* set to the char that ended the loop.  A failed append or truncate returns
\* false and leaves the cursor where it was
parse_quoted_string(b, c, allocOk) ==
    IF b[c] # 34
    THEN [ok |-> TRUE, cur |-> c, kind |-> "null", out |-> <<>>, hi |-> c]
    ELSE LET q == QuotedScan(b, c + 1, c + 1, <<>>)
         IN  IF ~allocOk
             THEN [ok |-> FALSE, cur |-> c, kind |-> "string", out |-> <<>>, hi |-> q.e]
             ELSE IF b[q.e] # 34
             THEN [ok |-> TRUE, cur |-> q.e, kind |-> "string", out |-> <<>>, hi |-> q.e]
             ELSE [ok |-> TRUE, cur |-> q.e + 1, kind |-> "string",
                   out |-> q.acc \o SubSeq(b, q.s, q.e - 1), hi |-> q.e]

\* isalnum, isdigit, islower and isxdigit of the C locale; for a negative char
\* (a byte over 0x7F) their argument is out of range and glibc answers false
isdigit(c) == c \in 48..57
islower(c) == c \in 97..122
isalnum(c) == c \in (48..57) \cup (65..90) \cup (97..122)
isxdigit(c) == c \in (48..57) \cup (65..70) \cup (97..102)

\* is_mime_charsetc(c): alphanumeric or one of ! # $ % & + - ^ _ ` { } ~
is_mime_charsetc(c) ==
    isalnum(c) \/ c \in {33, 35, 36, 37, 38, 43, 45, 94, 95, 96, 123, 125, 126}

\* the cursor is moved whether the char is a hex digit or not
xdigit_to_num_always(b, c) ==
    IF ~isxdigit(b[c]) THEN [cur |-> c + 1, num |-> 0]
    ELSE IF isdigit(b[c]) THEN [cur |-> c + 1, num |-> b[c] - 48]
    ELSE IF islower(b[c]) THEN [cur |-> c + 1, num |-> 10 + b[c] - 97]
    ELSE [cur |-> c + 1, num |-> 10 + b[c] - 65]
\* xdigit_to_num(current_char): 0 and the cursor unmoved when the char is no
\* hex digit, else the digit's value and the cursor moved past it
xdigit_to_num(b, c) ==
    IF ~isxdigit(b[c]) THEN [cur |-> c, num |-> 0]
    ELSE IF isdigit(b[c]) THEN [cur |-> c + 1, num |-> b[c] - 48]
    ELSE IF islower(b[c]) THEN [cur |-> c + 1, num |-> 10 + b[c] - 97]
    ELSE [cur |-> c + 1, num |-> 10 + b[c] - 65]

\* parse_value_char(current_char): an attr-char is returned and stepped over;
\* at a percent sign the cursor is moved past it and the two nibbles are
\* read with xdigit_to_num, a nibble of 0 returning 0; any other char
\* returns 0 with the cursor unmoved
parse_value_char(b, c) ==
    IF isalnum(b[c]) \/ b[c] \in {33, 35, 36, 38, 43, 45, 46, 94, 95, 96, 124, 126}
    THEN [cur |-> c + 1, ch |-> b[c], hi |-> c]
    ELSE IF b[c] # 37 THEN [cur |-> c, ch |-> 0, hi |-> c]
    ELSE LET high_nibble == xdigit_to_num(b, c + 1)
             low == xdigit_to_num(b, high_nibble.cur)
         IN  IF high_nibble.num = 0 THEN [cur |-> high_nibble.cur, ch |-> 0, hi |-> c + 1]
             ELSE IF low.num = 0 THEN [cur |-> low.cur, ch |-> 0, hi |-> high_nibble.cur]
             ELSE [cur |-> low.cur, ch |-> 16 * high_nibble.num + low.num,
                   hi |-> high_nibble.cur]

\* the loop of parse_ext_value that collects the value: parse_value_char is
\* called until it returns 0
RECURSIVE ValueLoop(_, _, _)
ValueLoop(b, c, acc) ==
    LET r == parse_value_char(b, c)
    IN  IF r.ch = 0 THEN [cur |-> r.cur, value |-> acc, hi |-> r.hi]
        ELSE ValueLoop(b, r.cur, acc \o <<r.ch>>)

\* the index where the run of mime-charset chars that starts at e ends
RECURSIVE MimeCharsetEnd(_, _)
MimeCharsetEnd(b, e) == IF is_mime_charsetc(b[e]) THEN MimeCharsetEnd(b, e + 1) ELSE e
\* the index of the first single quote or NUL at or after e
RECURSIVE LanguageEnd(_, _)
LanguageEnd(b, e) == IF b[e] = 39 \/ b[e] = 0 THEN e ELSE LanguageEnd(b, e + 1)
\* the C string that starts at index s of b, and the index of its NUL
RECURSIVE NulAt(_, _)
NulAt(b, s) == IF b[s] = 0 THEN s ELSE NulAt(b, s + 1)
CString(b, s) == SubSeq(b, s, NulAt(b, s) - 1)

\* parse_ext_value(current_char, result): charset_ptr is moved over the
\* mime-charset chars while language_ptr stays at the start of the text; the
\* result is destroyed (Null).  The char at language_ptr must be a single
\* quote, else true is returned; it is overwritten with NUL, the next single
\* quote is sought (true is returned, the cursor at the NUL, when there is
\* none) and overwritten too.  The value is collected from the char after
\* it, the charset is the C string at charset_ptr, the language the C string
\* at language_ptr, and the result is the map of the three.  alloc tells
\* which allocation fails: that of the value ("value"), one of those after
\* the value was collected ("map"), or none
parse_ext_value(b, c, alloc) ==
    LET charset_ptr == MimeCharsetEnd(b, c)
        b1 == [b EXCEPT ![c] = 0]
        value_ptr == LanguageEnd(b1, c + 1)
        b2 == [b1 EXCEPT ![value_ptr] = 0]
        v == ValueLoop(b2, value_ptr + 1, <<>>)
    IN  IF b[c] # 39
        THEN [ok |-> TRUE, cur |-> c, buf |-> b, kind |-> "null", out |-> <<>>,
              hi |-> charset_ptr]
        ELSE IF b1[value_ptr] # 39
        THEN [ok |-> TRUE, cur |-> value_ptr, buf |-> b1, kind |-> "null", out |-> <<>>,
              hi |-> value_ptr]
        ELSE IF alloc = "value"
        THEN [ok |-> FALSE, cur |-> value_ptr + 1, buf |-> b2, kind |-> "null",
              out |-> <<>>, hi |-> NulAt(b2, value_ptr + 1)]
        ELSE IF alloc = "map"
        THEN [ok |-> FALSE, cur |-> v.cur, buf |-> b2, kind |-> "null",
              out |-> <<>>, hi |-> NulAt(b2, value_ptr + 1)]
        ELSE [ok |-> TRUE, cur |-> v.cur, buf |-> b2, kind |-> "map",
              out |-> [charset |-> CString(b2, charset_ptr),
                       language |-> CString(b2, c + 1),
                       value |-> v.value],
              hi |-> NulAt(b2, value_ptr + 1)]

\* pw_string_lower: the ASCII capitals are replaced by their small letters
Lower(s) == [k \in 1..Len(s) |-> IF s[k] \in 65..90 THEN s[k] + 32 ELSE s[k]]
\* pw_create_map, and pw_map_update(map, key, value): the key is given the
\* value, whether it was in the map or not
EmptyMap == [k \in {} |-> <<>>]
MapUpdate(map, key, value) ==
    [k \in (DOMAIN map) \cup {key} |-> IF k = key THEN value ELSE map[k]]

\* the loop of parse_media_type over the parameters, from the cursor c with
\* the map params: it ends at the end of the text, at a char that is not
\* ';' where one is due, at a parameter name that no '=' follows and at a
\* '=' that the end of the text follows; else the value is read as a
\* quoted string or as a token and the map updated under the lowered name
RECURSIVE MediaParams(_, _, _)
MediaParams(b, c, params) ==
    LET c1 == skip_lwsp(b, c)
        c2 == skip_lwsp(b, c1 + 1)
        param_name == parse_token(b, c2, <<>>, TRUE)
        c3 == skip_lwsp(b, param_name.cur)
        c4 == skip_lwsp(b, c3 + 1)
        param_value == IF b[c4] = 34 THEN parse_quoted_string(b, c4, TRUE)
                       ELSE parse_token(b, c4, <<>>, TRUE) @@ [kind |-> "string"]
    IN  IF b[c1] = 0 \/ b[c1] # 59 THEN [cur |-> c1, params |-> params]
        ELSE IF b[c3] # 61 THEN [cur |-> c3, params |-> params]
        ELSE IF b[c4] = 0 THEN [cur |-> c4, params |-> params]
        ELSE IF param_value.kind # "string" THEN [cur |-> param_value.cur, params |-> params]
        ELSE MediaParams(b, param_value.cur,
                         MapUpdate(params, Lower(param_name.out), param_value.out))

\* any char but the end of the text is taken for the '/' after the type
MediaTypeStatus_lenient(ch) == IF ch = 0 THEN "error" ELSE "none"
\* the checks of parse_media_type on the char after the type: the end of the
\* text sets the status PW_ERROR, any other char but '/' sets PW_ERROR_EOF
MediaTypeStatus(ch) == IF ch = 0 THEN "error" ELSE IF ch # 47 THEN "eof" ELSE "none"

\* parse_media_type(current_char, req): the type is read as a token; a char
\* after it that is not '/' returns false with the status set by the checks
\* above; the subtype is read as a token and
\* the parameters by the loop; type, subtype and parameters are then moved
\* to the request.  A failed allocation returns false with the request
\* untouched
parse_media_type(b, c, allocOk) ==
    LET media_type == parse_token(b, c, <<>>, TRUE)
        media_subtype == parse_token(b, media_type.cur + 1, <<>>, TRUE)
        p == MediaParams(b, media_subtype.cur, EmptyMap)
    IN  IF ~allocOk
        THEN [ok |-> FALSE, status |-> "oom", cur |-> c, kind |-> "null", out |-> <<>>]
        ELSE IF MediaTypeStatus(b[media_type.cur]) # "none"
        THEN [ok |-> FALSE, status |-> MediaTypeStatus(b[media_type.cur]),
              cur |-> media_type.cur, kind |-> "null", out |-> <<>>]
        ELSE [ok |-> TRUE, status |-> "none", cur |-> p.cur, kind |-> "media",
              out |-> [media_type |-> media_type.out,
                       media_subtype |-> media_subtype.out,
                       media_type_params |-> p.params]]

\* a parameter value of a content disposition: a string, or the map that
\* parse_ext_value makes
Plain(s) == [tag |-> "Plain", value |-> s]
Extended(x) ==
    [tag |-> "Extended", charset |-> x.charset, language |-> x.language, value |-> x.value]

\* the loop of parse_content_disposition over the parameters: as that of
\* parse_media_type, but a '*' after the name token is stepped over and
\* makes the value be read by parse_ext_value, and a value that is not a
\* string ends the loop.  The text b is threaded through, as parse_ext_value
\* writes to it
RECURSIVE DispositionParams(_, _, _)
DispositionParams(b, c, params) ==
    LET c1 == skip_lwsp(b, c)
        c2 == skip_lwsp(b, c1 + 1)
        param_name == parse_token(b, c2, <<>>, TRUE)
        is_ext_value == b[param_name.cur] = 42
        c3 == skip_lwsp(b, IF is_ext_value THEN param_name.cur + 1 ELSE param_name.cur)
        c4 == skip_lwsp(b, c3 + 1)
        ext == parse_ext_value(b, c4, "none")
        str == IF b[c4] = 34 THEN parse_quoted_string(b, c4, TRUE)
               ELSE parse_token(b, c4, <<>>, TRUE) @@ [kind |-> "string"]
    IN  IF b[c1] = 0 \/ b[c1] # 59 THEN [cur |-> c1, buf |-> b, params |-> params]
        ELSE IF b[c3] # 61 THEN [cur |-> c3, buf |-> b, params |-> params]
        ELSE IF b[c4] = 0 THEN [cur |-> c4, buf |-> b, params |-> params]
        ELSE IF is_ext_value
        THEN \* a map or Null, never a string
             [cur |-> ext.cur, buf |-> ext.buf, params |-> params]
        ELSE IF str.kind # "string" THEN [cur |-> str.cur, buf |-> b, params |-> params]
        ELSE DispositionParams(b, str.cur,
                               MapUpdate(params, Lower(param_name.out), Plain(str.out)))

\* parse_content_disposition(current_char, req): the disposition type is read
\* as a token and lowered, the parameters are read by the loop, and both are
\* moved to the request.  A failed allocation returns false with the request
\* untouched
parse_content_disposition(b, c, allocOk) ==
    LET disposition_type == parse_token(b, c, <<>>, TRUE)
        p == DispositionParams(b, disposition_type.cur, EmptyMap)
    IN  IF ~allocOk
        THEN [ok |-> FALSE, status |-> "oom", cur |-> c, buf |-> b, kind |-> "null",
              out |-> <<>>]
        ELSE [ok |-> TRUE, status |-> "none", cur |-> p.cur, buf |-> p.buf,
              kind |-> "disposition",
              out |-> [disposition_type |-> Lower(disposition_type.out),
                       disposition_params |-> p.params]]

\* libcurl's curl_easy_header(easy, name, index, CURLH_HEADER, request, &hdr):
\* the instance index (from 0) of the header among those of request request
\* (from 0) of the chain, with the number of instances; an error when the
\* chain has no such request, the request did not carry the header, or it
\* has no such instance
curl_easy_header(chain, index, request) ==
    IF request < 0 \/ request >= Len(chain) THEN [code |-> "CURLHE_NOREQUEST"]
    ELSE IF chain[request + 1] = <<>> THEN [code |-> "CURLHE_MISSING"]
    ELSE IF index < 0 \/ index >= Len(chain[request + 1]) THEN [code |-> "CURLHE_BADINDEX"]
    ELSE [code |-> "CURLHE_OK", value |-> chain[request + 1][index + 1],
          amount |-> Len(chain[request + 1])]

\* the pointer no header value was stored to
Nullptr == <<>>

\* the loop of get_response_header: request by request from n, the first
\* instance of the header is asked for; the loop ends at the first answer
\* that is not CURLHE_OK
RECURSIVE LastHeader(_, _, _)
LastHeader(chain, n, found) ==
    LET h == curl_easy_header(chain, 0, n)
    IN  IF h.code = "CURLHE_OK"
        THEN LastHeader(chain, n + 1,
                        [last_value |-> h.value, last_amount |-> h.amount, last_request |-> n])
        ELSE found

\* get_response_header(easy_handle, name): nullptr when the loop found
\* nothing; else the last instance of the header in the last request the
\* loop found, or the value the loop found when that cannot be had
get_response_header(chain) ==
    LET found == LastHeader(chain, 0,
                     [last_value |-> Nullptr, last_amount |-> 1, last_request |-> 0])
        h == curl_easy_header(chain, found.last_amount - 1, found.last_request)
    IN  IF found.last_value = Nullptr THEN Nullptr
        ELSE IF h.code = "CURLHE_OK" THEN h.value
        ELSE found.last_value

\* the part of s after its last '/' (pw_string_split_chr at '/' and the last
\* item; pw_basename)
LastPart(s) ==
    LET slashes == {k \in 1..Len(s) : s[k] = 47}
        from == IF slashes = {} THEN 1
                ELSE (CHOOSE k \in slashes : \A j \in slashes : j <= k) + 1
    IN  SubSeq(s, from, Len(s))
\* the part of s before its first '?' (pw_string_split_chr at '?' and the
\* first item)
BeforeQuery(s) ==
    LET marks == {k \in 1..Len(s) : s[k] = 63}
        to == IF marks = {} THEN Len(s)
              ELSE (CHOOSE k \in marks : \A j \in marks : k <= j) - 1
    IN  SubSeq(s, 1, to)
\* "attachment", "filename" and "index.html"
Attachment == <<97, 116, 116, 97, 99, 104, 109, 101, 110, 116>>
Filename == <<102, 105, 108, 101, 110, 97, 109, 101>>
IndexHtml == <<105, 110, 100, 101, 120, 46, 104, 116, 109, 108>>

\* curl_request_get_filename(req, result): when the disposition parameters
\* are a map, the disposition type is "attachment" and the map has the key
\* "filename", the result is that value (of a map, its "value" and
\* "charset"); else the last Location header, or the URL when there is
\* none, is split at '/' and the last part taken, "index.html" when it is
\* empty.  r is what parse_content_disposition left in the request, an empty
\* location is no Location header
curl_request_get_filename(r, location, url) ==
    IF /\ r.kind = "disposition"
       /\ r.out.disposition_type = Attachment
       /\ Filename \in DOMAIN r.out.disposition_params
    THEN LET filename == r.out.disposition_params[Filename]
         IN  IF filename.tag = "Extended"
             THEN [filename |-> filename.value, charset |-> filename.charset]
             ELSE [filename |-> filename.value, charset |-> <<>>]
    ELSE LET filename == LastPart(IF location # <<>> THEN location ELSE url)
         IN  [filename |-> IF filename = <<>> THEN IndexHtml ELSE filename,
              charset |-> <<>>]

\* the resolved file name is used whole, without taking its base name
OutputName_fullname(filename_info, url) ==
    IF filename_info.filename # <<>> THEN filename_info.filename
    ELSE IF LastPart(BeforeQuery(url)) # <<>> THEN LastPart(BeforeQuery(url))
    ELSE IndexHtml
\* the base name of the resolved file name is used as it is
OutputName_nofallback(filename_info, url) == LastPart(filename_info.filename)
\* write_data: the name of the file it opens is the base name of the
\* resolved file name; when that is empty, the base name of the URL without
\* its query, "index.html" when that is empty too
OutputName(filename_info, url) ==
    IF LastPart(filename_info.filename) # <<>> THEN LastPart(filename_info.filename)
    ELSE IF LastPart(BeforeQuery(url)) # <<>> THEN LastPart(BeforeQuery(url))
    ELSE IndexHtml

\* chars of header texts: HT, US, SP, '!', '"', ';', '=', 'A', '~', DEL and
\* the byte 0xC8 (a negative char)
TextChars == {9, 31, 32, 33, 34, 59, 61, 65, 126, 127, -56}
\* the NUL-terminated texts of at most MaxText chars
Texts ==
    UNION {{t \o <<0>> : t \in [1..n -> TextChars]} : n \in 0..MaxText}

\* chars of texts with quoted strings: HT, US, '"', 'A' and the backslash
QuotedChars == {9, 31, 34, 65, 92}
\* the NUL-terminated texts of at most MaxQuoted chars
QuotedTexts ==
    UNION {{t \o <<0>> : t \in [1..n -> QuotedChars]} : n \in 0..MaxQuoted}

\* chars of texts with extended values: '%', the single quote, '0', '2',
\* ';', 'A' and 'a'
ExtChars == {37, 39, 48, 50, 59, 65, 97}
\* the NUL-terminated texts of at most MaxExt chars
ExtTexts ==
    UNION {{t \o <<0>> : t \in [1..n -> ExtChars]} : n \in 0..MaxExt}

\* the texts made of a head and at most MaxParams of the given segments
RECURSIVE Segmented(_, _, _)
Segmented(heads, segments, n) ==
    IF n = 0 THEN heads
    ELSE heads \cup {t \o s : t \in Segmented(heads, segments, n - 1), s \in segments}
\* media types: a/b, A/b, a (no '/'), the empty text and /b
MediaHeads == {<<97, 47, 98>>, <<65, 47, 98>>, <<97>>, <<>>, <<47, 98>>}
\* parameter texts: ;n=v  ; N=v  ;m="v"  ;n="\""  ;m="\v"  ;  ;n  ;n="v  ;=v
\* and a space
MediaSegments ==
    {<<59, 110, 61, 118>>, <<59, 32, 78, 61, 118>>, <<59, 109, 61, 34, 118, 34>>,
     <<59, 110, 61, 34, 92, 34, 34>>, <<59, 109, 61, 34, 92, 118, 34>>,
     <<59>>, <<59, 110>>, <<59, 110, 61, 34, 118>>, <<59, 61, 118>>, <<32>>}
MediaTexts == {t \o <<0>> : t \in Segmented(MediaHeads, MediaSegments, MaxParams)}
\* dispositions: attachment, Attachment, inline and the empty text
DispositionHeads ==
    {<<97, 116, 116, 97, 99, 104, 109, 101, 110, 116>>,
     <<65, 116, 116, 97, 99, 104, 109, 101, 110, 116>>,
     <<105, 110, 108, 105, 110, 101>>, <<>>}
\* parameter texts: ;filename=v  ; Filename="w"  ;filename*=U''%41  ;n=v
\* ;n="\""  ;  ;n  ;filename=""  ;filename="../p"  and a space
DispositionSegments ==
    {<<59, 102, 105, 108, 101, 110, 97, 109, 101, 61, 118>>,
     <<59, 32, 70, 105, 108, 101, 110, 97, 109, 101, 61, 34, 119, 34>>,
     <<59, 102, 105, 108, 101, 110, 97, 109, 101, 42, 61, 85, 39, 39, 37, 52, 49>>,
     <<59, 110, 61, 118>>, <<59, 110, 61, 34, 92, 34, 34>>,
     <<59>>, <<59, 110>>,
     <<59, 102, 105, 108, 101, 110, 97, 109, 101, 61, 34, 34>>,
     <<59, 102, 105, 108, 101, 110, 97, 109, 101, 61, 34, 46, 46, 47, 112, 34>>,
     <<32>>}
DispositionTexts ==
    {t \o <<0>> : t \in Segmented(DispositionHeads, DispositionSegments, MaxParams)}

\* header values: a and b
HeaderValues == {<<97>>, <<98>>}
\* what one request of a chain carried of the header: at most MaxInstances
\* instances
Carried == UNION {[1..n -> HeaderValues] : n \in 0..MaxInstances}
\* the redirect chains of at most MaxChain requests
Chains == UNION {[1..n -> Carried] : n \in 1..MaxChain}

\* request URLs, u/x, u/, u/x?q and u/x?q/r, and Location headers, none and
\* l/y
RequestUrls ==
    {<<117, 47, 120>>, <<117, 47>>, <<117, 47, 120, 63, 113>>,
     <<117, 47, 120, 63, 113, 47, 114>>}
Locations == {<<>>, <<108, 47, 121>>}

\* a parser is applied to any text of its set, from any cursor inside it
ParseInit ==
    /\ MainInit
    /\ given = 0
    /\ parallel = 1
    /\ \/ buf \in Texts \cup QuotedTexts /\ cur \in 1..Len(buf) /\ hdrs = <<>>
       \/ buf \in ExtTexts \cup MediaTexts \cup DispositionTexts /\ cur = 1 /\ hdrs = <<>>
       \/ buf = <<0>> /\ cur = 1 /\ hdrs \in Chains
    /\ res = <<>>
    /\ rv = "none"
    /\ fn = "none"
    /\ kind = "null"
    /\ perr = "none"
    /\ rdmax = 0

ParseToken ==
    /\ fn = "none"
    /\ buf \in Texts
    /\ \E appendOk \in BOOLEAN :
          LET r == parse_token(buf, cur, res, appendOk)
          IN  /\ cur' = r.cur
              /\ res' = r.out
              /\ rv' = IF r.ok THEN "true" ELSE "false"
              /\ perr' = IF r.ok THEN "none" ELSE "oom"
              /\ kind' = IF r.ok THEN "string" ELSE kind
    /\ rdmax' = TokenEnd(buf, cur)
    /\ fn' = "parse_token"
    /\ UNCHANGED <<buf, hdrs>>
    /\ UNCHANGED <<given, urls, admitted, parallel, pending_sigint, pc, running_transfers, i, exit,
                   req, eng, msgs, disk, hist, last>>

\* the variables of the scheduler, which no parser touches
mvars == <<given, urls, admitted, parallel, pending_sigint, pc, running_transfers, i, exit,
           req, eng, msgs, disk, hist, last>>

SkipLwsp ==
    /\ fn = "none"
    /\ buf \in Texts
    /\ cur' = skip_lwsp(buf, cur)
    /\ rdmax' = skip_lwsp(buf, cur)
    /\ fn' = "skip_lwsp"
    /\ UNCHANGED <<buf, res, kind, rv, perr>>
    /\ UNCHANGED <<mvars, hdrs>>

ParseQuotedString ==
    /\ fn = "none"
    /\ buf \in QuotedTexts
    /\ \E allocOk \in BOOLEAN :
          LET r == parse_quoted_string(buf, cur, allocOk)
          IN  /\ cur' = r.cur
              /\ res' = r.out
              /\ kind' = r.kind
              /\ rdmax' = r.hi
              /\ rv' = IF r.ok THEN "true" ELSE "false"
              /\ perr' = IF r.ok THEN "none" ELSE "oom"
    /\ fn' = "parse_quoted_string"
    /\ UNCHANGED buf
    /\ UNCHANGED <<mvars, hdrs>>

ParseValueChar ==
    /\ fn = "none"
    /\ buf \in ExtTexts
    /\ LET r == parse_value_char(buf, cur)
       IN  /\ cur' = r.cur
           /\ res' = <<r.ch>>
           /\ rdmax' = r.hi
    /\ kind' = "char"
    /\ rv' = "true"
    /\ perr' = "none"
    /\ fn' = "parse_value_char"
    /\ UNCHANGED buf
    /\ UNCHANGED <<mvars, hdrs>>

ParseExtValue ==
    /\ fn = "none"
    /\ buf \in ExtTexts
    /\ \E alloc \in {"none", "value", "map"} :
          LET r == parse_ext_value(buf, cur, alloc)
          IN  /\ cur' = r.cur
              /\ buf' = r.buf
              /\ res' = r.out
              /\ kind' = r.kind
              /\ rdmax' = r.hi
              /\ rv' = IF r.ok THEN "true" ELSE "false"
              /\ perr' = IF r.ok THEN "none" ELSE "oom"
    /\ fn' = "parse_ext_value"
    /\ UNCHANGED <<mvars, hdrs>>

ParseMediaType ==
    /\ fn = "none"
    /\ buf \in MediaTexts
    /\ \E allocOk \in BOOLEAN :
          LET r == parse_media_type(buf, cur, allocOk)
          IN  /\ cur' = r.cur
              /\ res' = r.out
              /\ kind' = r.kind
              /\ rdmax' = r.cur
              /\ rv' = IF r.ok THEN "true" ELSE "false"
              /\ perr' = r.status
    /\ fn' = "parse_media_type"
    /\ UNCHANGED buf
    /\ UNCHANGED <<mvars, hdrs>>

ParseContentDisposition ==
    /\ fn = "none"
    /\ buf \in DispositionTexts
    /\ \E allocOk \in BOOLEAN :
          LET r == parse_content_disposition(buf, cur, allocOk)
          IN  /\ cur' = r.cur
              /\ buf' = r.buf
              /\ res' = r.out
              /\ kind' = r.kind
              /\ rdmax' = r.cur
              /\ rv' = IF r.ok THEN "true" ELSE "false"
              /\ perr' = r.status
    /\ fn' = "parse_content_disposition"
    /\ UNCHANGED <<mvars, hdrs>>

GetResponseHeader ==
    /\ fn = "none"
    /\ hdrs # <<>>
    /\ res' = get_response_header(hdrs)
    /\ kind' = IF get_response_header(hdrs) = Nullptr THEN "null" ELSE "string"
    /\ rv' = "true"
    /\ fn' = "get_response_header"
    /\ UNCHANGED <<buf, cur, perr, rdmax, hdrs>>
    /\ UNCHANGED mvars

\* write_data names the file after curl_request_parse_headers has parsed the
\* Content-Disposition header: curl_request_get_filename, then the base name
ResolveFilename ==
    /\ fn = "parse_content_disposition"
    /\ \E allocOk \in BOOLEAN, location \in Locations, url \in RequestUrls :
          LET filename_info ==
                  curl_request_get_filename([kind |-> kind, out |-> res], location, url)
          IN  /\ rv' = IF allocOk THEN "true" ELSE "false"
              /\ perr' = IF allocOk THEN "none" ELSE "oom"
              /\ kind' = IF allocOk THEN "filename" ELSE "null"
              /\ res' = IF allocOk
                        THEN [info |-> filename_info,
                              name |-> OutputName(filename_info, url),
                              location |-> location, url |-> url]
                        ELSE <<>>
    /\ fn' = "curl_request_get_filename"
    /\ UNCHANGED <<buf, cur, rdmax>>
    /\ UNCHANGED <<mvars, hdrs>>

ParseNext ==
    \/ SkipLwsp
    \/ ParseToken
    \/ ParseQuotedString
    \/ ParseValueChar
    \/ ParseExtValue
    \/ ParseMediaType
    \/ ParseContentDisposition
    \/ ResolveFilename
    \/ GetResponseHeader

ParseSpec == ParseInit /\ [][ParseNext]_vars

TypeOK ==
    /\ pc \in {"first", "loop", "call", "perform", "wait", "check", "admit", "done"}
    /\ exit \in {"none", "usage", "exhausted", "interrupted", "fatal", "error", "abort"}
    /\ pending_sigint \in {0, 1}
    /\ parallel \in (-1)..MaxParallel
    /\ i \in 0..(MaxUrls + MaxParallel)
    /\ \A u \in Urls :
        /\ req[u].life \in {"none", "live", "destroyed"}
        /\ req[u].file \in {"null", "open", "closed"}
        /\ eng[u].st \in {"none", "idle", "running", "done", "removed"}
        /\ req[u].pos \in 0..MaxBytes

\* ------------------------------------------------------------------- claims
\* C1: with a parallelism limit N >= 1, in every state of the run the number
\* of requests submitted to the engine and not yet finalized is at most N.
C1_InFlightBounded == parallel >= 1 => Cardinality(InFlight) <= parallel

\* the limit of 2 is reached while a URL is still waiting
C1_Witness ==
    /\ parallel = 2
    /\ Cardinality(InFlight) = 2
    /\ urls # <<>>
    /\ pc = "perform"

\* C2: with N >= 1, when an iteration of the scheduler loop ends, N requests
\* are in flight or the pending queue is empty.
C2_VacancyFilled ==
    (parallel >= 1 /\ last.op = "admit_end")
        => (Cardinality(InFlight) = parallel \/ urls = <<>>)

\* every URL of the command line had exactly one request created for it
AllAdmittedOnce == urls = <<>> /\ \A u \in 1..given : admitted[u] = 1

C4_ExhaustedExit ==
    exit = "exhausted" => (InFlight = {} /\ urls = <<>> /\ msgs = <<>>)

\* a step that is the body callback of request u
BodyStep(u) == last'.op = "write_data" /\ last'.r = u
\* a step that finalizes request u (its completion message is processed)
FinalizeStep(u) == last'.op = "finalize" /\ last'.r = u /\ last'.path # "abort"
\* the callback returned because name resolution, open or write failed, or
\* because fewer bytes were written than offered
IoFailed(path) == path \in {"resolve_fail", "open_fail", "write_fail", "short"}

\* what C5 says the first body callback does: headers parsed, name resolved,
\* file opened (created or truncated), the offered bytes appended and accepted
OpenedAndAppended(u) ==
    /\ hist'[u].parsed = hist[u].parsed + 1
    /\ hist'[u].resolved = hist[u].resolved + 1
    /\ hist'[u].opened = hist[u].opened + 1
    /\ req'[u].file = "open"
    /\ req'[u].fname \in Names
    /\ disk'[req'[u].fname].exists
    /\ disk'[req'[u].fname].len = last'.size
    /\ req'[u].pos = last'.size
    /\ last'.ret = last'.size

\* C5: the first body callback (bytes offered, no file yet) of a request
\* whose status is any 2xx code parses, resolves, opens the file and appends
\* the offered bytes, unless name resolution or file I/O fails.
C5_Opens2xx ==
    [][\A u \in Urls :
        (BodyStep(u) /\ last'.size > 0 /\ req[u].file = "null"
            /\ Is2xx(req'[u].status) /\ ~IoFailed(last'.path))
        => OpenedAndAppended(u)]_vars

\* what write_data does: the same holds for a request whose status is
\* exactly 200, the only status it accepts
Opens200 ==
    [][\A u \in Urls :
        (BodyStep(u) /\ last'.size > 0 /\ req[u].file = "null"
            /\ req'[u].status = HTTP_OK /\ ~IoFailed(last'.path))
        => OpenedAndAppended(u)]_vars

\* a first body callback of a request with status 200 opened the file and
\* accepted its bytes
Opens200_Reached ==
    /\ last.op = "write_data"
    /\ last.path = "written"
    /\ last.size > 0
    /\ last.ret = last.size
    /\ last.status = HTTP_OK
    /\ req[last.r].file = "open"
    /\ req[last.r].pos = last.size
    /\ hist[last.r].opened = 1

\* C6: a request whose response code is not 2xx has no file opened or created
\* for it: not while it is in flight, not by any of its body callbacks, not
\* when it is finalized.
C6_NoFileForNon2xx ==
    /\ [](\A u \in Urls :
            ~Is2xx(eng[u].code) => (hist[u].opened = 0 /\ req[u].file = "null"))
    /\ [][\A u \in Urls :
            /\ (BodyStep(u) /\ ~Is2xx(eng'[u].code)) => disk' = disk
            /\ (FinalizeStep(u) /\ ~Is2xx(eng[u].code))
                  => (disk' = disk /\ last'.opened = 0)]_vars

\* a request answered 404 got body bytes, was aborted and finalized: no file
C6_Witness ==
    /\ last.op = "finalize"
    /\ last.status = 404
    /\ last.path = "err"
    /\ last.opened = 0
    /\ \A f \in Names : ~disk[f].exists

\* C7: a body callback of a request whose status is known and not 2xx returns
\* 0 and writes nothing.
C7_Non2xxConsumesNothing ==
    [][\A u \in Urls :
        (BodyStep(u) /\ last'.size > 0 /\ req'[u].status # 0 /\ ~Is2xx(req'[u].status))
        => (last'.ret = 0 /\ disk' = disk
            /\ hist'[u] = [hist[u] EXCEPT !.reported = hist'[u].reported]
            /\ req'[u].file = "null" /\ req'[u].pos = req[u].pos)]_vars

\* a body callback with bytes for a request with status 404 returned 0
C7_Witness ==
    /\ last.op = "write_data"
    /\ last.size > 0
    /\ last.status = 404
    /\ last.ret = 0
    /\ last.path = "status"

\* C8: headers are parsed, the name resolved and the file opened at most once
\* per request; a body callback that finds the file open only appends to it.
C8_OpenOnceThenAppend ==
    /\ [](\A u \in Urls :
            hist[u].parsed <= 1 /\ hist[u].resolved <= 1 /\ hist[u].opened <= 1)
    /\ [][\A u \in Urls :
            (BodyStep(u) /\ req[u].file = "open")
            => /\ hist'[u] = hist[u]
               /\ req'[u].file = "open"
               /\ req'[u].fname = req[u].fname
               /\ req'[u].pos = req[u].pos + last'.ret
               /\ \A f \in Names \ {req[u].fname} : disk'[f] = disk[f]
               /\ disk'[req[u].fname].exists
               /\ disk'[req[u].fname].len >= disk[req[u].fname].len
               /\ last'.ret > 0 => disk'[req[u].fname].len >= req'[u].pos]_vars

\* a second body callback appended its bytes to the file the first one opened
C8_Witness ==
    /\ last.op = "write_data"
    /\ last.path = "written"
    /\ last.size > 0
    /\ req[last.r].pos > last.size
    /\ hist[last.r].opened = 1
    /\ disk[req[last.r].fname].len = req[last.r].pos

\* C9: a file is never closed before its request's completion message is
\* processed; when the request has been finalized, a file that was opened for
\* it has been closed exactly once and the destroyed request holds no file.
C9_ClosedOnceAtCompletion ==
    /\ \A u \in Urls : hist[u].closed = 0 /\ req[u].file # "closed"
    /\ \A u \in Urls : req[u].life = "destroyed" => req[u].file = "null"
    /\ (last.op = "finalize" /\ last.path # "abort")
          => (last.closed = last.opened /\ req[last.r].life = "destroyed")

\* a request that wrote to its file completed and was finalized: closed once
C9_Witness ==
    /\ last.op = "finalize"
    /\ last.path = "ok"
    /\ last.opened = 1
    /\ last.closed = 1
    /\ req[last.r].life = "destroyed"

\* C10: finalizing a request whose transfer failed while its file is open
\* closes the file and leaves every file on disk as it was: the file exists
\* and is not truncated; for the only request of the run so far it holds
\* exactly the bytes that request wrote.
C10_PartialFileKept ==
    [][\A u \in Urls :
        (FinalizeStep(u) /\ eng[u].result = "err" /\ req[u].file = "open")
        => /\ disk' = disk
           /\ disk'[req[u].fname].exists
           /\ last'.opened = 1 /\ last'.closed = 1
           /\ req'[u].life = "destroyed"
           /\ (\A v \in Urls \ {u} : admitted[v] = 0)
                 => disk'[req[u].fname].len = req[u].pos]_vars

\* a transfer failed after a byte was written; the finalized request's file
\* is closed and still holds that byte
C10_Witness ==
    /\ last.op = "finalize"
    /\ last.path = "err"
    /\ last.status = HTTP_OK
    /\ last.opened = 1
    /\ last.closed = 1
    /\ \E f \in Names : disk[f].exists /\ disk[f].len >= 1

\* C11: a request handed to the engine is destroyed exactly once, in the step
\* that processes its completion message; its message is queued at most once,
\* and after the destruction no callback is invoked on it and nothing of it
\* changes again.
C11_SingleOwner ==
    /\ [](\A k \in 1..Len(msgs) :
            /\ req[msgs[k]].life = "live"
            /\ eng[msgs[k]].st = "done"
            /\ \A j \in 1..Len(msgs) : msgs[j] = msgs[k] => j = k)
    /\ [](\A u \in Urls : eng[u].st \in {"running", "done"} => req[u].life = "live")
    /\ [][\A u \in Urls :
            /\ FinalizeStep(u) =>
                  (req[u].life = "live" /\ req'[u].life = "destroyed"
                   /\ eng'[u].st = "removed")
            /\ (req[u].life = "live" /\ req'[u].life = "destroyed") => FinalizeStep(u)
            /\ req[u].life = "destroyed" =>
                  (req'[u] = req[u] /\ eng'[u] = eng[u] /\ hist'[u] = hist[u]
                   /\ ~BodyStep(u) /\ ~FinalizeStep(u) /\ admitted'[u] = admitted[u])]_vars

\* a request was destroyed by its finalization while the run goes on with
\* another request still in the engine
C11_Witness ==
    /\ \E u \in Urls : req[u].life = "destroyed" /\ eng[u].st = "removed"
    /\ \E v \in Urls : eng[v].st = "running" /\ last.op = "write_data" /\ last.r = v

\* the state after the finalization of a request that failed: its transfer
\* ended with a transport error, or its status is not a 2xx code
FailedFinalize ==
    /\ last.op = "finalize"
    /\ last.path \in {"ok", "err"}
    /\ last.path = "err" \/ ~Is2xx(last.status)

\* C12: the finalization of a failed request leaves the loop where it is, the
\* pending URLs, the other requests and their queued messages untouched; and
\* after it the loop goes on until every pending URL was admitted and every
\* request in flight finalized (or creating a request fails).
C12_FailureKeepsLoopRunning ==
    /\ [][\A u \in Urls :
            (FinalizeStep(u) /\ FailedFinalize')
            => /\ pc' = pc /\ exit' = exit /\ urls' = urls
               /\ msgs' = Tail(msgs)
               /\ \A v \in Urls \ {u} : req'[v] = req[v] /\ eng'[v] = eng[v]]_vars
    /\ FailedFinalize ~>
          (pc = "done" /\ (exit = "error" \/ (AllAdmittedOnce /\ InFlight = {})))

\* C13: when a request that failed (transport error, or a status that is not
\* 2xx) has been finalized, a failure line naming its URL was printed for it.
C13_FailureReported == FailedFinalize => last.reported >= 1

\* a step in which curl_perform fails: curl_multi_perform or curl_multi_wait
\* returned an error
AdvanceFails == last'.op \in {"perform", "wait"} /\ last'.path = "fail"

\* C14: when the advance step fails, the loop stops in that step, nothing
\* admitted, and afterwards no advance step starts, no request is admitted
\* and no request or handle changes.
C14_AdvanceFailureStops ==
    /\ [](exit = "fatal" => pc = "done")
    /\ [][AdvanceFails =>
            (pc' = "done" /\ exit' = "fatal"
             /\ UNCHANGED <<urls, admitted, req, eng, msgs>>)]_vars
    /\ [][exit = "fatal" =>
            (last'.op \notin {"call", "perform", "wait", "admit"}
             /\ UNCHANGED <<pc, exit, urls, admitted, req, eng, msgs>>)]_vars

\* curl_multi_wait failed with a URL pending and a request in flight: the
\* run is over
C14_Witness ==
    /\ exit = "fatal"
    /\ last.op = "wait"
    /\ urls # <<>>
    /\ InFlight # {}
    /\ parallel = 2

\* C15: a run ended by a failed advance step prints a status message and ends
\* with a result that is a failure and differs from the result of a run
\* ended by work exhaustion.
C15_FatalReportsError ==
    exit = "fatal" =>
        /\ StatusPrinted(exit)
        /\ ~pw_main_result(exit) \/ ExitCode(exit) # 0
        /\ <<pw_main_result(exit), ExitCode(exit)>>
               # <<pw_main_result("exhausted"), ExitCode("exhausted")>>

\* C16: once the interrupt flag is set, no request is created, wherever the
\* handler ran.
C16_NoAdmissionAfterInterrupt ==
    [][pending_sigint = 1 =>
        (admitted' = admitted
         /\ \A u \in Urls : req[u].life = "none" => req'[u].life = "none")]_vars

\* C17: once the interrupt flag is set the loop test never passes again, so
\* at most the one advance step whose call was pending starts; the loop then
\* ends at its next test, and after that exit the requests in flight are
\* neither cancelled nor finalized: they, their handles and their files stay
\* as they are.
C17_InterruptExits ==
    /\ [](exit = "interrupted" => (pc = "done" /\ pending_sigint = 1))
    /\ [][pending_sigint = 1 =>
            /\ pc' = "call" => pc = "call"
            /\ (pc = "call" /\ pc' # pc) => pc' = "perform"
            /\ (pc = "loop" /\ pc' # pc) => (pc' = "done" /\ exit' = "interrupted")
            /\ (pc = "loop" /\ pc' # pc) => UNCHANGED <<req, eng, msgs, disk, hist, urls>>]_vars
    /\ [][exit = "interrupted" =>
            UNCHANGED <<pc, exit, urls, admitted, req, eng, msgs, disk, hist>>]_vars

\* the loop ended on the interrupt with a request in flight, live and with
\* its file open
C17_Witness ==
    /\ exit = "interrupted"
    /\ last.op = "loop"
    /\ \E u \in Urls :
          eng[u].st = "running" /\ req[u].life = "live" /\ req[u].file = "open"

\* C18: during the scheduler run the parallelism limit is at least 1.
C18_LimitAtLeastOne == pc # "first" => parallel >= 1

\* C19: the pending URLs are always the earliest enqueued ones, in order;
\* a request is created only for the URL popped from the end of the queue,
\* the most recently enqueued one still pending; with an empty queue no
\* request is created.
C19_LifoAdmission ==
    /\ [](\A k \in 1..Len(urls) : urls[k] = k)
    /\ [][\A u \in Urls :
            (admitted'[u] # admitted[u] \/ (req'[u].life = "live" /\ req[u].life = "none"))
            => /\ urls # <<>>
               /\ u = urls[Len(urls)]
               /\ \A k \in 1..Len(urls) : urls[k] <= u
               /\ urls' = SubSeq(urls, 1, Len(urls) - 1)
               /\ admitted'[u] = admitted[u] + 1
               /\ last'.op = "admit" /\ last'.r = u]_vars
    /\ [][urls = <<>> => (admitted' = admitted /\ urls' = urls)]_vars

\* of three URLs the third was admitted first, then the second, the first
\* still pending
C19_Witness ==
    /\ given = 3
    /\ urls = <<1>>
    /\ admitted[3] = 1 /\ admitted[2] = 1 /\ admitted[1] = 0
    /\ last.op = "admit" /\ last.r = 2

\* RFC 2616 section 2.2: CTL is octets 0 - 31 and DEL; the separators; a
\* token consists of any other chars
CtlOctets == (0..31) \cup {127}
SeparatorOctets ==
    {40, 41, 60, 62, 64, 44, 59, 58, 92, 34, 47, 91, 93, 63, 61, 123, 125, 32, 9}
IsTokenChar(c) == ToUChar(c) \notin (CtlOctets \cup SeparatorOctets)
\* the length of the maximal run of token chars of b that starts at c
TokenRun(b, c) ==
    CHOOSE n \in 0..(Len(b) - c) :
        /\ \A k \in 0..(n - 1) : IsTokenChar(b[c + k])
        /\ ~IsTokenChar(b[c + n])

\* C20: applied to a NUL-terminated text, parse_token that returns true
\* yields the empty string and leaves the cursor when the cursor is on a
\* separator or CTL (the NUL included), and otherwise yields exactly the
\* maximal run of chars that are neither, the cursor moved to the first char
\* after that run; the text is not changed.
C20_ParseToken ==
    [][(fn' = "parse_token" /\ rv' = "true") =>
        /\ ~IsTokenChar(buf[cur]) => (res' = <<>> /\ cur' = cur)
        /\ res' = SubSeq(buf, cur, cur + TokenRun(buf, cur) - 1)
        /\ cur' = cur + TokenRun(buf, cur)
        /\ ~IsTokenChar(buf[cur'])
        /\ buf' = buf]_vars

\* a token of two chars was taken from a text, up to the DEL that follows
C20_Witness ==
    /\ fn = "parse_token"
    /\ rv = "true"
    /\ res = <<65, 33>>
    /\ cur = 3
    /\ buf[cur] = 127

\* RFC 7230 section 3.2.6: quoted-string = <"> *(qdtext | quoted-pair) <">,
\* qdtext is any TEXT but the double quote, quoted-pair is a backslash and a
\* CHAR; TEXT is any octet but the CTLs, HT allowed.  The reading of the
\* quoted-string whose content starts at index k of b: whether it is closed,
\* its content with every quoted-pair replaced by its second char, and the
\* index past the closing quote
IsQdText(c) == ToUChar(c) \notin ((CtlOctets \ {9}) \cup {34, 92})
IsQuotable(c) == ToUChar(c) \notin (CtlOctets \ {9})
RECURSIVE QuotedContent(_, _)
QuotedContent(b, k) ==
    IF b[k] = 34 THEN [closed |-> TRUE, text |-> <<>>, next |-> k + 1]
    ELSE IF b[k] = 92 /\ IsQuotable(b[k + 1])
    THEN LET t == QuotedContent(b, k + 2)
         IN  [t EXCEPT !.text = <<b[k + 1]>> \o @]
    ELSE IF IsQdText(b[k])
    THEN LET t == QuotedContent(b, k + 1)
         IN  [t EXCEPT !.text = <<b[k]>> \o @]
    ELSE [closed |-> FALSE, text |-> <<>>, next |-> k]

\* C21: applied at the opening quote of a properly closed quoted-string,
\* parse_quoted_string that returns true yields the content with every
\* escaping backslash dropped and the char after it taken literally (an
\* escaped double quote and an escaped backslash included), and leaves the
\* cursor just past the closing quote
C21_QuotedUnescaped ==
    [][(fn' = "parse_quoted_string" /\ rv' = "true" /\ buf[cur] = 34
            /\ QuotedContent(buf, cur + 1).closed)
        => /\ kind' = "string"
           /\ res' = QuotedContent(buf, cur + 1).text
           /\ cur' = QuotedContent(buf, cur + 1).next]_vars

\* C22: applied at a double quote that no closing double quote matches (the
\* end of the text or a control char comes first), parse_quoted_string
\* that has memory returns true and yields the empty string
C22_UnclosedIsEmpty ==
    [][(fn' = "parse_quoted_string" /\ buf[cur] = 34
            /\ ~QuotedContent(buf, cur + 1).closed /\ perr' # "oom")
        => /\ rv' = "true"
           /\ kind' = "string"
           /\ res' = <<>>]_vars

\* RFC 5987 section 3.2.1: ext-value = charset "'" [ language ] "'"
\* value-chars, charset = 1*mime-charsetc, value-chars = *(pct-encoded |
\* attr-char), pct-encoded = "%" HEXDIG HEXDIG; a language tag consists of
\* alphanumerics and hyphens
AlnumOctets == (48..57) \cup (65..90) \cup (97..122)
MimeCharsetOctets == AlnumOctets \cup {33, 35, 36, 37, 38, 43, 45, 94, 95, 96, 123, 125, 126}
AttrOctets == AlnumOctets \cup {33, 35, 36, 38, 43, 45, 46, 94, 95, 96, 124, 126}
LanguageOctets == AlnumOctets \cup {45}
HexOctets == (48..57) \cup (65..70) \cup (97..102)
HexValue(c) == IF c <= 57 THEN c - 48 ELSE IF c <= 70 THEN c - 55 ELSE c - 87
\* a percent sign at index k of b followed by two hex digits other than 00
ValidPct(b, k) ==
    /\ b[k] = 37
    /\ k + 2 <= Len(b)
    /\ b[k + 1] \in HexOctets /\ b[k + 2] \in HexOctets
    /\ ~(b[k + 1] = 48 /\ b[k + 2] = 48)
\* the value-chars at index k of b, decoded, and the index where they end
RECURSIVE PctDecoded(_, _)
PctDecoded(b, k) ==
    IF b[k] \in AttrOctets
    THEN LET t == PctDecoded(b, k + 1) IN [t EXCEPT !.value = <<b[k]>> \o @]
    ELSE IF ValidPct(b, k)
    THEN LET t == PctDecoded(b, k + 3)
         IN  [t EXCEPT !.value = <<16 * HexValue(b[k + 1]) + HexValue(b[k + 2])>> \o @]
    ELSE [value |-> <<>>, next |-> k]
\* index c of b starts a well-formed ext-value whose single quotes are at
\* q1 and q2
ExtValueAt(b, c, q1, q2) ==
    /\ c < q1 /\ q1 < q2 /\ q2 < Len(b)
    /\ b[q1] = 39 /\ b[q2] = 39
    /\ \A k \in c..(q1 - 1) : b[k] \in MimeCharsetOctets
    /\ \A k \in (q1 + 1)..(q2 - 1) : b[k] \in LanguageOctets

\* C23: applied to a well-formed ext-value charset'language'value-chars,
\* parse_ext_value that returns true yields an extended value: the charset
\* is the text before the first single quote, the language the text between
\* the two single quotes, the value the percent-decoded value-chars
C23_ExtValueParts ==
    [][\A q1, q2 \in 1..Len(buf) :
          (fn' = "parse_ext_value" /\ rv' = "true" /\ ExtValueAt(buf, cur, q1, q2))
          => /\ kind' = "map"
             /\ res' = [charset |-> SubSeq(buf, cur, q1 - 1),
                        language |-> SubSeq(buf, q1 + 1, q2 - 1),
                        value |-> PctDecoded(buf, q2 + 1).value]]_vars

\* C24: parse_value_char decodes every "%" H1 H2 of two hex digits other
\* than 00 to the octet 16 * H1 + H2 and moves past it, and returns 0, which
\* ends the value, only at a char that is neither an attr-char nor the start
\* of such a pair
C24_PctDecoding ==
    [][fn' = "parse_value_char"
        => /\ ValidPct(buf, cur)
                => /\ res' = <<16 * HexValue(buf[cur + 1]) + HexValue(buf[cur + 2])>>
                   /\ cur' = cur + 3
           /\ res' = <<0>> => (buf[cur] \notin AttrOctets /\ ~ValidPct(buf, cur))]_vars

\* RFC 7231 section 3.1.1.1: media-type = type "/" subtype *( OWS ";" OWS
\* parameter ), parameter = token "=" ( token | quoted-string ), type and
\* subtype are tokens; a token has at least one char
RECURSIVE SkipOws(_, _)
SkipOws(b, k) == IF b[k] \in {32, 9} THEN SkipOws(b, k + 1) ELSE k
CaseFolded(s) == [k \in 1..Len(s) |-> IF s[k] \in 65..90 THEN s[k] + 32 ELSE s[k]]
\* the parameters of the longest well-formed run of "; name=value" that
\* starts at index k of b, names folded to lower case and quoted values
\* unescaped, and the index where the run ends
RECURSIVE ParametersRead(_, _, _)
ParametersRead(b, k, params) ==
    LET k1 == SkipOws(b, k)
        k2 == SkipOws(b, k1 + 1)
        n == TokenRun(b, k2)
        v == k2 + n + 1
        name == CaseFolded(SubSeq(b, k2, k2 + n - 1))
        q == QuotedContent(b, v + 1)
        vn == TokenRun(b, v)
        stop == [params |-> params, rest |-> k1]
    IN  IF b[k1] # 59 THEN stop
        ELSE IF n = 0 \/ b[k2 + n] # 61 THEN stop
        ELSE IF b[v] = 34
        THEN IF q.closed THEN ParametersRead(b, q.next, MapUpdate(params, name, q.text))
             ELSE stop
        ELSE IF vn = 0 THEN stop
        ELSE ParametersRead(b, v + vn, MapUpdate(params, name, SubSeq(b, v, v + vn - 1)))
\* index c of b starts type "/" subtype
MediaHeadAt(b, c) ==
    /\ TokenRun(b, c) > 0
    /\ b[c + TokenRun(b, c)] = 47
    /\ TokenRun(b, c + TokenRun(b, c) + 1) > 0
MediaType(b, c) == SubSeq(b, c, c + TokenRun(b, c) - 1)
MediaSubtypeAt(b, c) == c + TokenRun(b, c) + 1
MediaSubtype(b, c) ==
    SubSeq(b, MediaSubtypeAt(b, c), MediaSubtypeAt(b, c) + TokenRun(b, MediaSubtypeAt(b, c)) - 1)
MediaParametersAt(b, c) == MediaSubtypeAt(b, c) + TokenRun(b, MediaSubtypeAt(b, c))

\* C25: applied to a well-formed media type, type "/" subtype followed by
\* "; name=value" parameters up to the end of the text, parse_media_type
\* that has memory returns true and sets the type, the subtype and the
\* parameters to exactly these values: the names in lower case, each value
\* the token or the unescaped quoted-string
C25_MediaTypeParsed ==
    [][(fn' = "parse_media_type" /\ perr' # "oom" /\ MediaHeadAt(buf, cur)
            /\ buf[ParametersRead(buf, MediaParametersAt(buf, cur), EmptyMap).rest] = 0)
        => /\ rv' = "true"
           /\ kind' = "media"
           /\ res' = [media_type |-> MediaType(buf, cur),
                      media_subtype |-> MediaSubtype(buf, cur),
                      media_type_params |->
                          ParametersRead(buf, MediaParametersAt(buf, cur), EmptyMap).params]]_vars

\* a malformed delimiter sequence at index k of b: a ";" that no parameter
\* follows (another ";" or the end of the text does), or one followed by a
\* parameter name without "="
MalformedDelimiterAt(b, k) ==
    /\ b[k] = 59
    /\ LET k2 == SkipOws(b, k + 1)
           n == TokenRun(b, k2)
       IN  \/ n = 0 /\ b[k2] \in {59, 0}
           \/ n > 0 /\ b[k2 + n] # 61

\* C26: applied to a media type whose parameters are followed by a malformed
\* delimiter sequence (as in text/html;;; or a parameter name without "="),
\* parse_media_type that has memory stops there: it returns true, and the
\* request holds the type, the subtype and every parameter before that point
C26_MalformedStopsScan ==
    [][(fn' = "parse_media_type" /\ perr' # "oom" /\ MediaHeadAt(buf, cur)
            /\ MalformedDelimiterAt(buf,
                   ParametersRead(buf, MediaParametersAt(buf, cur), EmptyMap).rest))
        => /\ rv' = "true"
           /\ kind' = "media"
           /\ res' = [media_type |-> MediaType(buf, cur),
                      media_subtype |-> MediaSubtype(buf, cur),
                      media_type_params |->
                          ParametersRead(buf, MediaParametersAt(buf, cur), EmptyMap).params]]_vars

\* the parsers that return true or false
Parsers ==
    {"parse_token", "parse_quoted_string", "parse_ext_value", "parse_media_type",
     "parse_content_disposition"}

\* C27 as stated: parse_token, parse_quoted_string, parse_ext_value,
\* parse_media_type and parse_content_disposition return false only when an
\* allocation failed; on every malformed text they return true
C27_FailureOnlyOnOom ==
    [][(fn' \in Parsers /\ rv' = "false") => perr' = "oom"]_vars

\* C27: the parsers return false only when an allocation failed, but for
\* parse_media_type, which returns false also when the type token is not
\* followed by "/": with the status PW_ERROR at the end of the text,
\* PW_ERROR_EOF at any other char, and without setting the request's fields;
\* on every other malformed text they return true
C27_FailureOomOrNoSlash ==
    [][fn' \in Parsers
        => /\ (rv' = "false" /\ perr' # "oom")
                => /\ fn' = "parse_media_type"
                   /\ buf[cur + TokenRun(buf, cur)] # 47
                   /\ perr' = IF buf[cur + TokenRun(buf, cur)] = 0 THEN "error" ELSE "eof"
                   /\ kind' = "null"
           /\ (fn' = "parse_media_type" /\ buf[cur + TokenRun(buf, cur)] # 47)
                => rv' = "false"
           /\ rv' = "true" <=> perr' = "none"]_vars

\* parse_media_type has returned false on a media type without "/"
C27_Witness ==
    /\ fn = "parse_media_type"
    /\ rv = "false"
    /\ perr = "eof"
    /\ kind = "null"
    /\ buf[cur] = 59

\* RFC 6266 section 4.1: content-disposition = disposition-type *( ";"
\* disposition-parm ), disposition-parm = token "=" value | ext-token "="
\* ext-value, an ext-token being a token that ends in "*".  The single
\* quotes of the ext-value at index v of b
ExtQuotes(b, v) ==
    {q \in (1..Len(b)) \X (1..Len(b)) : ExtValueAt(b, v, q[1], q[2])}
\* the parameters of the longest well-formed run of disposition parameters
\* that starts at index k of b, and the index where the run ends
RECURSIVE DispositionParametersRead(_, _, _)
DispositionParametersRead(b, k, params) ==
    LET k1 == SkipOws(b, k)
        k2 == SkipOws(b, k1 + 1)
        n == TokenRun(b, k2)
        v == k2 + n + 1
        name == CaseFolded(SubSeq(b, k2, k2 + n - 1))
        quotes == CHOOSE q \in ExtQuotes(b, v) : TRUE
        x == PctDecoded(b, quotes[2] + 1)
        q == QuotedContent(b, v + 1)
        vn == TokenRun(b, v)
        stop == [params |-> params, rest |-> k1]
    IN  IF b[k1] # 59 THEN stop
        ELSE IF n = 0 \/ b[k2 + n] # 61 THEN stop
        ELSE IF b[k2 + n - 1] = 42
        THEN IF ExtQuotes(b, v) = {} THEN stop
             ELSE DispositionParametersRead(b, x.next,
                      MapUpdate(params, name,
                                [tag |-> "Extended",
                                 charset |-> SubSeq(b, v, quotes[1] - 1),
                                 language |-> SubSeq(b, quotes[1] + 1, quotes[2] - 1),
                                 value |-> x.value]))
        ELSE IF b[v] = 34
        THEN IF q.closed
             THEN DispositionParametersRead(b, q.next,
                      MapUpdate(params, name, [tag |-> "Plain", value |-> q.text]))
             ELSE stop
        ELSE IF vn = 0 THEN stop
        ELSE DispositionParametersRead(b, v + vn,
                 MapUpdate(params, name, [tag |-> "Plain", value |-> SubSeq(b, v, v + vn - 1)]))
\* the map holds the value under the name, or under the name without its "*"
StoredAs(map, name, value) ==
    \/ name \in DOMAIN map /\ map[name] = value
    \/ /\ name # <<>> /\ name[Len(name)] = 42
       /\ SubSeq(name, 1, Len(name) - 1) \in DOMAIN map
       /\ map[SubSeq(name, 1, Len(name) - 1)] = value
\* the well-formed parameters after the disposition type at index c of b
DispositionParameters(b, c) == DispositionParametersRead(b, c + TokenRun(b, c), EmptyMap)

\* C28: applied to a well-formed content disposition with a parameter whose
\* name ends in "*" and whose value is a well-formed ext-value,
\* parse_content_disposition that has memory returns true and stores that
\* parameter as an extended value (charset, language, decoded value), and
\* stores the parameters that follow it as well
C28_ExtParamStored ==
    [][(fn' = "parse_content_disposition" /\ perr' # "oom" /\ TokenRun(buf, cur) > 0
            /\ buf[DispositionParameters(buf, cur).rest] = 0
            /\ \E k \in DOMAIN DispositionParameters(buf, cur).params :
                   DispositionParameters(buf, cur).params[k].tag = "Extended")
        => /\ rv' = "true"
           /\ kind' = "disposition"
           /\ \A k \in DOMAIN DispositionParameters(buf, cur).params :
                   StoredAs(res'.disposition_params, k,
                            DispositionParameters(buf, cur).params[k])]_vars

\* the index of the NUL that terminates the text b
Terminator(b) == CHOOSE k \in 1..Len(b) : b[k] = 0 /\ \A j \in 1..(k - 1) : b[j] # 0

\* C29: applied to a NUL-terminated text, each of skip_lwsp, parse_token,
\* parse_quoted_string, parse_value_char, parse_ext_value, parse_media_type
\* and parse_content_disposition moves the cursor forward only and leaves it
\* at or before the terminating NUL, and reads no char after that NUL
C29_CursorWithinText ==
    [][fn' \in {"skip_lwsp", "parse_token", "parse_quoted_string", "parse_value_char",
                "parse_ext_value", "parse_media_type", "parse_content_disposition"}
        => /\ cur <= cur'
           /\ cur' <= Terminator(buf)
           /\ rdmax' <= Terminator(buf)]_vars

\* parse_value_char has met a "%" that the end of the text follows: the
\* cursor is on the NUL, which was the last char read
C29_Witness ==
    /\ fn = "parse_value_char"
    /\ cur = Len(buf)
    /\ cur > 1
    /\ buf[cur - 1] = 37
    /\ rdmax = Len(buf)

\* the disposition type of the header text b, in lower case, and its
\* well-formed parameters
DispositionType(b) == CaseFolded(SubSeq(b, 1, TokenRun(b, 1)))
FilenameParameters(b) ==
    {DispositionParameters(b, 1).params[k].value :
        k \in {Filename, Filename \o <<42>>} \cap DOMAIN DispositionParameters(b, 1).params}

\* C30: when the Content-Disposition header has the type attachment and a
\* filename or filename* parameter, the resolved file name is that
\* parameter's string value (of an extended value, the decoded value),
\* whatever the URL and the Location header are; with any other disposition
\* type the parameters are not used: the name is the one resolved without
\* them.  (The header was parsed and the resolver had memory.)
C30_AttachmentFilename ==
    [][(fn' = "curl_request_get_filename" /\ rv' = "true" /\ kind = "disposition")
        => /\ (DispositionType(buf) = Attachment /\ FilenameParameters(buf) # {})
                => res'.info.filename \in FilenameParameters(buf)
           /\ DispositionType(buf) # Attachment
                => res'.info = curl_request_get_filename(
                                   [kind |-> "null", out |-> <<>>], res'.location, res'.url)]_vars

\* no attachment file name applies to the request whose header was parsed:
\* the disposition type is not attachment (it is empty when there is no
\* disposition), or there is no filename parameter
NoAttachmentFilename ==
    /\ kind = "disposition"
    /\ (DispositionType(buf) # Attachment \/ FilenameParameters(buf) = {})
\* the text t without its query string, and its path segment after the last
\* "/"
WithoutQuery(t) ==
    IF \E k \in 1..Len(t) : t[k] = 63
    THEN SubSeq(t, 1, (CHOOSE k \in 1..Len(t) : t[k] = 63 /\ \A j \in 1..(k - 1) : t[j] # 63) - 1)
    ELSE t
LastSegment(t) ==
    IF \E k \in 1..Len(t) : t[k] = 47
    THEN SubSeq(t, (CHOOSE k \in 1..Len(t) : t[k] = 47 /\ \A j \in (k + 1)..Len(t) : t[j] # 47) + 1,
                Len(t))
    ELSE t

\* C31: when no attachment file name applies, the resolved name is the path
\* segment after the last "/" of the Location header if there is one, else
\* of the request URL, the query string being removed before the split
\* (and index.html when that segment is empty)
C31_NameFromLocationOrUrl ==
    [][(fn' = "curl_request_get_filename" /\ rv' = "true" /\ NoAttachmentFilename)
        => LET target == IF res'.location # <<>> THEN res'.location ELSE res'.url
               segment == LastSegment(WithoutQuery(target))
           IN  res'.name = IF segment = <<>> THEN IndexHtml ELSE segment]_vars

\* C32: the name the output file is opened with is never the empty string;
\* when no attachment file name applies, there is no Location header and the
\* URL's last segment is empty (the URL ends in "/"), the name is exactly
\* index.html
C32_NameNeverEmpty ==
    [][(fn' = "curl_request_get_filename" /\ rv' = "true")
        => /\ res'.name # <<>>
           /\ (NoAttachmentFilename /\ res'.location = <<>> /\ LastSegment(res'.url) = <<>>)
                => res'.name = IndexHtml]_vars

\* an attachment with an empty file name was resolved for a URL that ends in
\* "/": the empty candidate was replaced by index.html
C32_Witness ==
    /\ fn = "curl_request_get_filename"
    /\ kind = "filename"
    /\ res.info.filename = <<>>
    /\ LastSegment(res.url) = <<>>
    /\ res.name = IndexHtml

\* C34: the name the body callback opens the file with never contains a
\* "/": of the resolved file name, whether it came from the disposition, the
\* Location header or the URL, only the component after the last "/" is used
C34_NameHasNoSlash ==
    [][(fn' = "curl_request_get_filename" /\ rv' = "true")
        => /\ \A k \in 1..Len(res'.name) : res'.name[k] # 47
           /\ LastSegment(res'.info.filename) # <<>>
                => res'.name = LastSegment(res'.info.filename)]_vars

\* the attachment file name ../p was resolved and the name used is p
C34_Witness ==
    /\ fn = "curl_request_get_filename"
    /\ kind = "filename"
    /\ res.info.filename = <<46, 46, 47, 112>>
    /\ res.name = <<112>>

\* the requests of the chain that carried the header
Carriers(chain) == {r \in 1..Len(chain) : chain[r] # <<>>}
LastCarrier(chain) == CHOOSE r \in Carriers(chain) : \A q \in Carriers(chain) : q <= r

\* C33: get_response_header returns the last instance of the header in the
\* last request of the redirect chain that carried it, also when an earlier
\* request did not carry it, and null only when no request carried it
C33_LastHeaderOfChain ==
    [][fn' = "get_response_header"
        => IF Carriers(hdrs) = {} THEN kind' = "null"
           ELSE /\ kind' = "string"
                /\ res' = hdrs[LastCarrier(hdrs)][Len(hdrs[LastCarrier(hdrs)])]]_vars

\* the requests create_request created
Created == {u \in Urls : admitted[u] >= 1}
\* the requests whose submission failed: curl_multi_add_handle did not take
\* the handle
SubmissionFailed == {u \in Created : eng[u].st = "idle"}

\* C35: when a run that ends by work exhaustion returns, every request
\* created by create_request has been destroyed, also a request whose
\* submission (add_curl_request) failed; and a destroyed request is never
\* destroyed again
C35_AllRequestsDestroyed ==
    /\ [](exit = "exhausted" => \A u \in Created : req[u].life = "destroyed")
    /\ [][\A u \in Urls : req[u].life = "destroyed" => req'[u] = req[u]]_vars

=============================================================================
